---- MODULE Spec2Model ----
(***************************************************************************)
(* Rock-Paper-Scissors: the match session (game.py, both copies of the     *)
(* repository), the summary log (save_load.py) and the peer session layer  *)
(* (network.py), as state machines.                                        *)
(***************************************************************************)
EXTENDS Integers, Sequences, FiniteSets, TLC

(* ------------------------------------------------------------------ *)
(* Bounds                                                              *)
(* ------------------------------------------------------------------ *)
MaxRounds == 2          \* resolved rounds kept in one history
MaxPeerRounds == 1      \* resolved rounds of each peer of a networked match
MaxInFlight == 1        \* player_choice messages on their way to one peer
MaxClicks == 2          \* checks for the opponent's move one peer has scheduled at a time

(* ------------------------------------------------------------------ *)
(* Enumerations of game.py                                             *)
(* ------------------------------------------------------------------ *)
None == "none"

Choice == {"rock", "paper", "scissors"}

GameResult == {"win", "lose", "draw"}

GameMode == {"vs_ai", "vs_player", "ai_vs_ai", "vs_local_player"}

OptChoice == Choice \cup {None}

Impls == {"root", "nested"}      \* src/src/game.py, src/Game-Rock-Paper-Scissors/src/game.py

Sessions == {1, 2}               \* 1: the local process, 2: the remote peer's process

MAX_HISTORY == 10

VARIABLES
    impl,        \* which copy of game.py the processes run
    session,     \* session[s]: the RockPaperScissorsGame object of process s, its files, its last call
    ui,          \* ui[s]: the GameUI fields of process s used by the networked round
    wire         \* wire[s]: the player_choice messages sent to s and not yet handled

VARIABLES
    mgr,         \* mgr[m]: the NetworkManager object of process m
    rx,          \* rx[m]: the receive loop of m's connection: its position, buffer and socket
    inflight,    \* inflight[m]: bytes written to the connection towards m, not yet read by m
    written,     \* written[m]: every byte written towards m so far
    processed,   \* processed[m]: the messages m's loop handed to _process_message, in order
    calls,       \* calls[m]: the handler invocations made by m's loop, in order
    tcp,         \* the joiner's connection to the host: "none", "backlog" (not yet accepted), "accepted"
    client       \* client[c]: the socket c the host's accept loop obtained, its _handle_client loop, its peer

gameVars == <<impl, session, ui, wire>>

netVars == <<mgr, rx, inflight, written, processed, calls, tcp, client>>

vars == <<impl, session, ui, wire, mgr, rx, inflight, written, processed, calls, tcp, client>>

(* ------------------------------------------------------------------ *)
(* Files                                                               *)
(* ------------------------------------------------------------------ *)
MissingFile == [st |-> "missing", data |-> <<>>]

\* a file json.load cannot parse (empty, truncated, not JSON)
MalformedFile == [st |-> "malformed", data |-> <<>>]

\* a file holding valid JSON that is not an array (an object, null, a number)
NotAListFile == [st |-> "other", data |-> <<>>]

\* a file holding the JSON array list
JsonFile(list) == [st |-> "ok", data |-> list]

\* JSON values as json.dump writes them
JNull == [t |-> "null", v |-> "null"]

JStr(s) == [t |-> "string", v |-> s]

JNum(n) == [t |-> "number", v |-> ToString(n)]

\* the integers a round record can hold
JsonInts == 0 .. MaxRounds + 1

\* json.dump of an Optional[str]: None is written as null
dump_optional(x) == IF x = None THEN JNull ELSE JStr(x)

\* json.load of one JSON value: null gives None, a number its integer, a
\* string itself
json_load_value(j) ==
    IF j.t = "null" THEN None
    ELSE IF j.t = "number" THEN CHOOSE n \in JsonInts : ToString(n) = j.v
    ELSE j.v

\* json.dump of a list of round records
json_dump(history) ==
    [i \in 1 .. Len(history) |->
        [round |-> JNum(history[i].round),
         p1choice |-> dump_optional(history[i].p1choice),
         p1score |-> JNum(history[i].p1score),
         p2choice |-> dump_optional(history[i].p2choice),
         p2score |-> JNum(history[i].p2score),
         result |-> JStr(history[i].result)]]

\* json.load of a JSON array of round records
json_load(data) ==
    [i \in 1 .. Len(data) |->
        [round |-> json_load_value(data[i].round),
         p1choice |-> json_load_value(data[i].p1choice),
         p1score |-> json_load_value(data[i].p1score),
         p2choice |-> json_load_value(data[i].p2choice),
         p2score |-> json_load_value(data[i].p2score),
         result |-> json_load_value(data[i].result)]]

\* RockPaperScissorsGame.load_history: a missing file leaves the history as
\* it is, an unparsable one empties it, and whatever JSON value the file
\* holds becomes the history, a list or not.
load_history(S) ==
    IF S.history_file.st = "ok"
    THEN [S EXCEPT !.history = json_load(S.history_file.data), !.history_is_list = TRUE]
    ELSE IF S.history_file.st = "other"
    THEN [S EXCEPT !.history = <<>>, !.history_is_list = FALSE]
    ELSE IF S.history_file.st = "malformed"
    THEN [S EXCEPT !.history = <<>>, !.history_is_list = TRUE]
    ELSE S

\* the last record alone written instead of the whole history
save_history_incremental(S) ==
    IF ~S.writable THEN S
    ELSE [S EXCEPT !.history_file =
            JsonFile(json_dump(IF S.history = <<>> THEN <<>>
                               ELSE <<S.history[Len(S.history)]>>))]

\* RockPaperScissorsGame.save_history: full rewrite; a failed write (the
\* working directory is not writable) is swallowed and leaves the file as
\* it was.
save_history(S) ==
    IF ~S.writable THEN S
    ELSE IF S.history_is_list
    THEN [S EXCEPT !.history_file = JsonFile(json_dump(S.history))]
    ELSE [S EXCEPT !.history_file = NotAListFile]

\* json.dump of the summary log
menu_dump(history) == [i \in 1 .. Len(history) |-> [desc |-> JStr(history[i].desc)]]

\* save_load.load_history: the list of the file, [] when it is missing or
\* cannot be parsed
menu_load_history(f) ==
    IF f.st = "ok" THEN [i \in 1 .. Len(f.data) |-> [desc |-> json_load_value(f.data[i].desc)]]
    ELSE <<>>

\* the cut to the first MAX_HISTORY entries left out
menu_cap_none(list) == list

\* history = history[:MAX_HISTORY]
menu_cap(list) == IF Len(list) > MAX_HISTORY THEN SubSeq(list, 1, MAX_HISTORY) ELSE list

\* save_load.save_match as _save_to_menu_history calls it: the entry is put
\* in front and the log cut to MAX_HISTORY entries. When the file holds JSON
\* that is not an array, history.insert raises, _save_to_menu_history
\* swallows it and nothing is written.
save_match(S, result) ==
    LET history   == menu_load_history(S.menu_file)
        desc      == IF result = "win" THEN "P Win vs AI"
                     ELSE IF result = "lose" THEN "AI Win vs P"
                     ELSE "Draw"
        inserted  == <<[desc |-> desc]>> \o history
    IN IF S.menu_file.st = "other" THEN S
       ELSE IF S.writable THEN [S EXCEPT !.menu_file = JsonFile(menu_dump(menu_cap(inserted)))]
       ELSE S

(* ------------------------------------------------------------------ *)
(* RockPaperScissorsGame                                               *)
(* ------------------------------------------------------------------ *)
NoCall == [op |-> "init", choice1 |-> None, choice2 |-> None, keep_history |-> None,
           result |-> None, message |-> None, round_end |-> <<>>]

\* RockPaperScissorsGame.__init__ (ends with load_history)
NewSession(file, writable, cb) ==
    load_history(
      [player1_score |-> 0, player2_score |-> 0, round |-> 1,
       history |-> <<>>, history_is_list |-> TRUE, game_mode |-> None,
       player1_choice |-> None, player2_choice |-> None,
       on_round_end |-> cb,
       history_file |-> file, menu_file |-> MissingFile, writable |-> writable,
       last |-> NoCall])

\* win_conditions with the entry of PAPER mistyped
win_conditions_typo ==
    [c \in Choice |-> CASE c = "rock" -> "scissors"
                        [] c = "paper" -> "scissors"
                        [] c = "scissors" -> "paper"]

win_conditions ==
    [c \in Choice |-> CASE c = "rock" -> "scissors"
                        [] c = "paper" -> "rock"
                        [] c = "scissors" -> "paper"]

\* determine_winner with WIN and LOSE exchanged
determine_winner_flipped(S) ==
    IF S.player1_choice = None \/ S.player2_choice = None THEN "draw"
    ELSE IF S.player1_choice = S.player2_choice THEN "draw"
    ELSE IF win_conditions[S.player1_choice] = S.player2_choice THEN "lose"
    ELSE "win"

determine_winner(S) ==
    IF S.player1_choice = None \/ S.player2_choice = None THEN "draw"
    ELSE IF S.player1_choice = S.player2_choice THEN "draw"
    ELSE IF win_conditions[S.player1_choice] = S.player2_choice THEN "win"
    ELSE "lose"

\* update_scores whose second test is an if instead of an elif on the
\* wrong counter
update_scores_both(S, result) ==
    IF result = "win" THEN [S EXCEPT !.player1_score = @ + 1]
    ELSE IF result = "lose" THEN [S EXCEPT !.player1_score = @ + 1, !.player2_score = @ + 1]
    ELSE S

update_scores(S, result) ==
    IF result = "win" THEN [S EXCEPT !.player1_score = @ + 1]
    ELSE IF result = "lose" THEN [S EXCEPT !.player2_score = @ + 1]
    ELSE S

get_result_message(S, result) ==
    IF result = "draw" THEN "It's a draw!" ELSE "wins"

\* the record built after the increment of the round counter
round_data_after_increment(S, result) ==
    [round |-> S.round + 1,
     p1choice |-> S.player1_choice, p1score |-> S.player1_score,
     p2choice |-> S.player2_choice, p2score |-> S.player2_score,
     result |-> result]

\* save_round: the record of the round
round_data(S, result) ==
    [round |-> S.round,
     p1choice |-> S.player1_choice, p1score |-> S.player1_score,
     p2choice |-> S.player2_choice, p2score |-> S.player2_score,
     result |-> result]

\* save_round: precondition of self.history.append, which raises
\* AttributeError when the history loaded from the file is not a list
can_append(S) == S.history_is_list

\* the record put in place of the history instead of at its end
save_round_overwrite(S, result) ==
    save_history([S EXCEPT !.history = <<round_data(S, result)>>])

save_round(S, result) ==
    save_history([S EXCEPT !.history = Append(@, round_data(S, result))])

\* The call just made on the session: its arguments, what it returned and
\* the payloads it handed to the on_round_end callback.
Returned(S, op, c1, c2, result, message, cb) ==
    [S EXCEPT !.last = [op |-> op, choice1 |-> c1, choice2 |-> c2, keep_history |-> None,
                        result |-> result, message |-> message,
                        round_end |-> cb]]

\* the test with and for or
move_missing_and(choice1, choice2) == choice1 = None /\ choice2 = None

\* the test of the two-player branch of src/src/game.py play_round
move_missing(choice1, choice2) == choice1 = None \/ choice2 = None

\* src/src/game.py play_round
play_round_root(S, choice1, choice2, ai1, ai2) ==
    IF S.game_mode = "vs_ai" /\ choice1 = None
    THEN Returned(S, "play_round", choice1, choice2, "draw", "Player choice missing", <<>>)
    ELSE IF S.game_mode \in {"vs_player", "vs_local_player"}
            /\ move_missing(choice1, choice2)
    THEN Returned(S, "play_round", choice1, choice2, "draw", "Waiting for both players", <<>>)
    ELSE
      LET S1 == IF S.game_mode = "vs_ai"
                THEN [S EXCEPT !.player1_choice = choice1, !.player2_choice = ai1]
                ELSE IF S.game_mode = "ai_vs_ai"
                THEN [S EXCEPT !.player1_choice = ai1, !.player2_choice = ai2]
                ELSE IF S.game_mode \in {"vs_player", "vs_local_player"}
                THEN [S EXCEPT !.player1_choice = choice1, !.player2_choice = choice2]
                ELSE S
          result == determine_winner(S1)
          S2 == update_scores(S1, result)
          S3 == save_round(S2, result)
          S4 == [S3 EXCEPT !.round = @ + 1]
          cb == IF S4.on_round_end THEN <<round_data(S2, result)>> ELSE <<>>
      IN IF ~can_append(S2)
         THEN Returned(S2, "play_round", choice1, choice2, None, "raised", <<>>)
         ELSE Returned(S4, "play_round", choice1, choice2, result,
                       get_result_message(S4, result), cb)

\* src/Game-Rock-Paper-Scissors/src/game.py play_round
play_round_nested(S, choice1, choice2, ai1, ai2) ==
    IF S.game_mode \notin {"vs_ai", "ai_vs_ai"} /\ ~(choice1 # None /\ choice2 # None)
    THEN Returned(S, "play_round", choice1, choice2, "draw", "Waiting for both players", <<>>)
    ELSE
      LET S1 == IF S.game_mode = "vs_ai"
                THEN [S EXCEPT !.player1_choice = choice1, !.player2_choice = ai1]
                ELSE IF S.game_mode = "ai_vs_ai"
                THEN [S EXCEPT !.player1_choice = ai1, !.player2_choice = ai2]
                ELSE [S EXCEPT !.player1_choice = choice1, !.player2_choice = choice2]
          result == determine_winner(S1)
          S2 == update_scores(S1, result)
          S3 == save_round(S2, result)
          S4 == save_match(S3, result)
          S5 == [S4 EXCEPT !.round = @ + 1]
      IN IF ~can_append(S2)
         THEN Returned(S2, "play_round", choice1, choice2, None, "raised", <<>>)
         ELSE Returned(S5, "play_round", choice1, choice2, result,
                       get_result_message(S5, result), <<>>)

\* RockPaperScissorsGame.set_game_mode
set_game_mode(S, mode) ==
    Returned([S EXCEPT !.game_mode = mode], "set_game_mode", None, None, None, None, <<>>)

\* reset_game without the reset of the round counter
reset_game_keeps_round(S, keep_history) ==
    LET S1 == [S EXCEPT !.player1_score = 0, !.player2_score = 0,
                        !.player1_choice = None, !.player2_choice = None]
        S2 == IF ~keep_history
              THEN save_history([S1 EXCEPT !.history = <<>>, !.history_is_list = TRUE])
              ELSE S1
    IN [Returned(S2, "reset_game", None, None, None, None, <<>>)
          EXCEPT !.last.keep_history = keep_history]

\* RockPaperScissorsGame.reset_game (the nested copy has no keep_history
\* parameter and never clears the history)
reset_game(S, keep_history) ==
    LET S1 == [S EXCEPT !.player1_score = 0, !.player2_score = 0, !.round = 1,
                        !.player1_choice = None, !.player2_choice = None]
        S2 == IF ~keep_history
              THEN save_history([S1 EXCEPT !.history = <<>>, !.history_is_list = TRUE])
              ELSE S1
    IN [Returned(S2, "reset_game", None, None, None, None, <<>>)
          EXCEPT !.last.keep_history = keep_history]

(* ------------------------------------------------------------------ *)
(* Actions of one session                                              *)
(* ------------------------------------------------------------------ *)
CanRecord(S) ==
    /\ Len(S.history) < MaxRounds
    /\ S.player1_score < MaxRounds
    /\ S.player2_score < MaxRounds

\* The arguments callers pass: make_choice passes the player's choice alone
\* in VS_AI, ai_vs_ai_round passes nothing, the two-player screens and a
\* session with no mode pass any pair.
Choice1Args(S) == IF S.game_mode = "ai_vs_ai" THEN {None} ELSE OptChoice

Choice2Args(S) == IF S.game_mode \in {"vs_ai", "ai_vs_ai"} THEN {None} ELSE OptChoice

\* make_ai_choice is drawn once in VS_AI, twice in AI_VS_AI, not at all
\* otherwise (an undrawn value is never read).
Draws1(S) == IF S.game_mode \in {"vs_ai", "ai_vs_ai"} THEN Choice ELSE {"rock"}

Draws2(S) == IF S.game_mode = "ai_vs_ai" THEN Choice ELSE {"rock"}

PlayRound(s) ==
    /\ CanRecord(session[s])
    /\ \E c1 \in Choice1Args(session[s]), c2 \in Choice2Args(session[s]),
          ai1 \in Draws1(session[s]), ai2 \in Draws2(session[s]) :
         session' = [session EXCEPT ![s] =
            IF impl = "root" THEN play_round_root(@, c1, c2, ai1, ai2)
            ELSE play_round_nested(@, c1, c2, ai1, ai2)]
    /\ UNCHANGED <<impl, ui, wire>>
    /\ UNCHANGED netVars

SetGameMode(s) ==
    /\ \E mode \in GameMode :
         session' = [session EXCEPT ![s] = set_game_mode(@, mode)]
    /\ UNCHANGED <<impl, ui, wire>>
    /\ UNCHANGED netVars

ResetGame(s) ==
    /\ \E keep \in BOOLEAN :
         /\ impl = "nested" => keep
         /\ session' = [session EXCEPT ![s] = reset_game(@, keep)]
    /\ UNCHANGED <<impl, ui, wire>>
    /\ UNCHANGED netVars

(* ------------------------------------------------------------------ *)
(* The networked round as the UI drives it (ui.py). Each process has   *)
(* its session, its GameUI fields and the player_choice messages on    *)
(* their way to it.                                                    *)
(* ------------------------------------------------------------------ *)
PollLimit == 30

\* chains: the attempts argument of every check_opponent_response call that
\* is scheduled by self.after and has not run yet, oldest first
\* handled: how many times _handle_opponent_choice has stored a move
NoUI == [opponent_choice |-> None, chains |-> <<>>, screen |-> "online", handled |-> 0]

Opponent(p) == IF p = 1 THEN 2 ELSE 1

\* the sequence q without its element i
Without(q, i) == SubSeq(q, 1, i - 1) \o SubSeq(q, i + 1, Len(q))

\* GameUI.check_opponent_response(attempts), as run by the UI thread of p
\* for its scheduled call i
poll(p, i) ==
    LET attempts == ui[p].chains[i]
    IN IF attempts > PollLimit
       THEN /\ ui' = [ui EXCEPT ![p].chains = Without(@, i), ![p].screen = "menu"]
            /\ UNCHANGED session
       ELSE IF ui[p].opponent_choice # None
       THEN LET S0 == [session[p] EXCEPT !.player2_choice = ui[p].opponent_choice]
            IN /\ session' = [session EXCEPT ![p] =
                     play_round_root(S0, S0.player1_choice, S0.player2_choice, "rock", "rock")]
               /\ ui' = [ui EXCEPT ![p].chains = Without(@, i)]
       ELSE /\ ui' = [ui EXCEPT ![p].chains[i] = attempts + 1]
            /\ UNCHANGED session

\* GameUI.make_online_choice: the choice is sent, stored as player1_choice,
\* the opponent's choice is forgotten, and the first check (attempts = 0)
\* runs at once: it finds no opponent choice and schedules the next one.
\* The move buttons stay in place while checks are scheduled.
make_online_choice(p) ==
    /\ ui[p].screen = "online"
    /\ Len(ui[p].chains) < MaxClicks
    /\ Len(session[p].history) < MaxPeerRounds
    /\ Len(wire[Opponent(p)]) < MaxInFlight
    /\ \E c \in Choice :
         /\ wire' = [wire EXCEPT ![Opponent(p)] = Append(@, c)]
         /\ session' = [session EXCEPT ![p].player1_choice = c]
         /\ ui' = [ui EXCEPT ![p].opponent_choice = None,
                             ![p].chains = Append(@, 1)]
    /\ UNCHANGED impl
    /\ UNCHANGED netVars

\* GameUI._handle_opponent_choice, called by the receive thread of p
handle_opponent_choice(p) ==
    /\ wire[p] # <<>>
    /\ wire' = [wire EXCEPT ![p] = Tail(@)]
    /\ ui' = [ui EXCEPT ![p].opponent_choice = Head(wire[p]),
                        ![p].handled = @ + 1]
    /\ UNCHANGED <<impl, session>>
    /\ UNCHANGED netVars

\* the timer of a scheduled check fires. All timers have the same period,
\* so a check scheduled later never gets ahead of one scheduled earlier.
check_opponent_response(p) ==
    /\ \E i \in 1 .. Len(ui[p].chains) :
         /\ i > 1 => ui[p].chains[i] < ui[p].chains[i - 1]
         /\ poll(p, i)
    /\ UNCHANGED <<impl, wire>>
    /\ UNCHANGED netVars

(* ------------------------------------------------------------------ *)
(* The wire: bytes, characters, JSON                                   *)
(* ------------------------------------------------------------------ *)
\* Bytes are tokens. "nl" is the newline, "sp" a space, "L" "T" the lead and
\* continuation byte of one two-byte UTF-8 character, which decodes to the
\* character "E". A JSON object is "{" member tokens "}"; "42" is a JSON
\* number. The member tokens are a type tag, a timestamp, a choice and "E"
\* (a text holding the non-ASCII character).
NetworkMessageType ==
    {"connect", "disconnect", "game_start", "player_ready", "player_choice",
     "game_result", "chat_message", "error"}

TypeTokens == NetworkMessageType \cup {"not_a_real_type"}

Stamps == 1 .. 9

StampTokens == {ToString(k) : k \in Stamps}

StampOf(tok) == CHOOSE k \in Stamps : ToString(k) = tok

MemberTokens == TypeTokens \cup StampTokens \cup Choice \cup {"E"}

Managers == {"H", "J"}           \* the host process, the joiner process

Handlers == {"h1", "h2"}         \* callbacks a caller may register

HandledTypes == {"player_choice", "game_result"}   \* the types callers register for

buffer_size == 4096

\* bytes.decode('utf-8') raises UnicodeDecodeError on a lone or cut character
utf8_valid(b) ==
    \A i \in 1 .. Len(b) :
       /\ b[i] = "L" => (i < Len(b) /\ b[i + 1] = "T")
       /\ b[i] = "T" => (i > 1 /\ b[i - 1] = "L")

IsNotContinuation(byte) == byte # "T"

\* bytes.decode('utf-8') of valid bytes
utf8_decode(b) ==
    LET leads == SelectSeq(b, IsNotContinuation)
    IN [i \in 1 .. Len(leads) |-> IF leads[i] = "L" THEN "E" ELSE leads[i]]

RECURSIVE utf8_encode(_)
utf8_encode(t) ==
    IF t = <<>> THEN <<>>
    ELSE IF t[1] = "E" THEN <<"L", "T">> \o utf8_encode(Tail(t))
    ELSE <<t[1]>> \o utf8_encode(Tail(t))

\* str.strip
strip(t) ==
    LET inked == {i \in 1 .. Len(t) : t[i] # "sp"}
    IN IF inked = {} THEN <<>>
       ELSE SubSeq(t, CHOOSE i \in inked : \A j \in inked : i <= j,
                      CHOOSE i \in inked : \A j \in inked : j <= i)

\* the value of the last member token of the body that belongs to set
member(body, set) ==
    LET at == {i \in 1 .. Len(body) : body[i] \in set}
    IN IF at = {} THEN None ELSE body[CHOOSE i \in at : \A j \in at : j <= i]

NotJson == [kind |-> "invalid", type |-> None, timestamp |-> None, choice |-> None]

\* the JSON value a text without surrounding blanks stands for
json_value(u) ==
    IF u = <<"42">>
    THEN [kind |-> "number", type |-> None, timestamp |-> None, choice |-> None]
    ELSE IF /\ Len(u) >= 2 /\ u[1] = "{" /\ u[Len(u)] = "}"
            /\ \A i \in 2 .. Len(u) - 1 : u[i] \in MemberTokens
    THEN [kind |-> "object", type |-> member(SubSeq(u, 2, Len(u) - 1), TypeTokens),
          timestamp |-> member(SubSeq(u, 2, Len(u) - 1), StampTokens),
          choice |-> member(SubSeq(u, 2, Len(u) - 1), Choice)]
    ELSE NotJson

\* json.loads: blanks around the value are ignored
json_loads(t) == CHOOSE v \in {json_value(u) : u \in {strip(t)}} : TRUE

\* json.dumps(message) + "\n" of send_message: pure ASCII
json_dumps_line(type, stamp, choice) ==
    <<"{", type, ToString(stamp)>> \o (IF choice = None THEN <<>> ELSE <<choice>>)
       \o <<"}", "nl">>

(* ------------------------------------------------------------------ *)
(* NetworkManager                                                      *)
(* ------------------------------------------------------------------ *)
NoHandlers == [t \in HandledTypes |-> None]

\* NetworkManager.__init__
NewManager ==
    [connected |-> FALSE, is_server |-> FALSE, socket |-> None,
     client_socket |-> None, message_handlers |-> NoHandlers,
     room_code |-> None, accept_loop |-> "none", clock |-> 1, op |-> None,
     arg |-> <<>>, dest |-> <<>>, ret |-> None]

\* the sockets the host's accept loop obtains, in the order it obtains them
ClientSockets == {"c1", "c2"}

\* a socket the accept loop has not obtained yet
NoClient == [state |-> "none", loop |-> "none", peer |-> "none", peer_open |-> FALSE, got |-> <<>>]

NotStarted == [loop |-> "none", buffer |-> <<>>, sock_open |-> FALSE]

\* NetworkManager.set_message_handler
set_message_handler(M, type, handler) ==
    [M EXCEPT !.message_handlers[type] = handler]

\* _process_message looking the handler up under a fixed type
process_message_any(M, message) ==
    LET message_data == json_loads(message)
    IN IF message_data.kind = "invalid" THEN [outcome |-> "invalid", handler |-> None, data |-> NotJson]
       ELSE IF message_data.kind # "object" THEN [outcome |-> "raised", handler |-> None, data |-> NotJson]
       ELSE IF message_data.type \notin NetworkMessageType
       THEN [outcome |-> "invalid", handler |-> None, data |-> NotJson]
       ELSE IF M.message_handlers["player_choice"] # None
       THEN [outcome |-> "call", handler |-> M.message_handlers["player_choice"],
             data |-> message_data]
       ELSE [outcome |-> "dropped", handler |-> None, data |-> NotJson]

\* NetworkManager._process_message: what becomes of one message.
\*   call:    the handler of its type is invoked with the parsed message
\*   dropped: no handler is registered for its type
\*   invalid: JSONDecodeError or ValueError, caught and printed
\*   raised:  any other exception, which leaves _process_message
process_message(M, message) ==
    LET message_data == json_loads(message)
    IN IF message_data.kind = "invalid" THEN [outcome |-> "invalid", handler |-> None, data |-> NotJson]
       ELSE IF message_data.kind # "object" THEN [outcome |-> "raised", handler |-> None, data |-> NotJson]
       ELSE IF message_data.type \notin NetworkMessageType
       THEN [outcome |-> "invalid", handler |-> None, data |-> NotJson]
       ELSE IF message_data.type \in HandledTypes /\ M.message_handlers[message_data.type] # None
       THEN [outcome |-> "call", handler |-> M.message_handlers[message_data.type],
             data |-> message_data]
       ELSE [outcome |-> "dropped", handler |-> None, data |-> NotJson]

HasNewline(t) == \E i \in 1 .. Len(t) : t[i] = "nl"

FirstNewline(t) == CHOOSE i \in 1 .. Len(t) : t[i] = "nl" /\ \A j \in 1 .. i - 1 : t[j] # "nl"

\* the last complete line taken instead of the first
split_last(buffer) ==
    LET nls  == {i \in 1 .. Len(buffer) : buffer[i] = "nl"}
        last == CHOOSE i \in nls : \A j \in nls : j <= i
        before == {i \in nls : i < last}
        prev == IF before = {} THEN 0 ELSE CHOOSE i \in before : \A j \in before : j <= i
    IN [message |-> SubSeq(buffer, prev + 1, last - 1),
        buffer |-> SubSeq(buffer, 1, prev) \o SubSeq(buffer, last + 1, Len(buffer))]

\* message, buffer = buffer.split('\n', 1)
split_first(buffer) ==
    [message |-> SubSeq(buffer, 1, FirstNewline(buffer) - 1),
     buffer |-> SubSeq(buffer, FirstNewline(buffer) + 1, Len(buffer))]

\* the buffer overwritten instead of extended
accumulate_overwrite(buffer, data) == utf8_decode(data)

\* buffer += data.decode('utf-8')
accumulate(buffer, data) == buffer \o utf8_decode(data)

\* the loop leaves through an exception or a break: _handle_client closes the
\* client socket in its finally clause, _receive_messages only stops reading
LoopExit(m, R) ==
    [R EXCEPT !.loop = "exited",
              !.sock_open = IF mgr[m].is_server THEN FALSE ELSE @]

\* where the loop goes after the buffer changed: on in the inner while, or
\* round the outer while (its test on self.connected) to the next recv
LoopOn(m, R) ==
    IF HasNewline(R.buffer) THEN [R EXCEPT !.loop = "drain"]
    ELSE IF mgr[m].connected THEN [R EXCEPT !.loop = "recv"]
    ELSE LoopExit(m, R)

\* _handle_client / _receive_messages: recv returns the next n bytes, which
\* are decoded and added to the buffer
Recv(m) ==
    /\ rx[m].loop = "recv"
    /\ inflight[m] # <<>>
    /\ \E n \in 1 .. Len(inflight[m]) :
         /\ n <= buffer_size
         /\ LET data == SubSeq(inflight[m], 1, n)
            IN /\ inflight' = [inflight EXCEPT ![m] = SubSeq(@, n + 1, Len(@))]
               /\ rx' = [rx EXCEPT ![m] =
                    IF utf8_valid(data)
                    THEN LoopOn(m, [@ EXCEPT !.buffer = accumulate(@, data)])
                    ELSE LoopExit(m, @)]
    /\ UNCHANGED <<mgr, written, processed, calls, tcp>>
    /\ UNCHANGED client
    /\ UNCHANGED gameVars

\* one turn of the inner while of m's loop, sp being the split of its buffer
\* and out what _process_message makes of the message: the loop, the
\* processed messages and the handler invocations after it
drain_one(m, sp, out) ==
    LET R == [rx[m] EXCEPT !.buffer = sp.buffer]
    IN IF strip(sp.message) = <<>>
       THEN [rx |-> LoopOn(m, R), processed |-> processed[m], calls |-> calls[m]]
       ELSE [rx |-> IF out.outcome = "raised" THEN LoopExit(m, R) ELSE LoopOn(m, R),
             processed |-> Append(processed[m], sp.message),
             calls |-> IF out.outcome = "call"
                       THEN Append(calls[m], [handler |-> out.handler, data |-> out.data])
                       ELSE calls[m]]

\* _handle_client / _receive_messages: one turn of the inner while
Process(m) ==
    /\ rx[m].loop = "drain"
    /\ \E sp \in {split_first(rx[m].buffer)} :
         \E out \in {process_message(mgr[m], sp.message)} :
            \E after \in {drain_one(m, sp, out)} :
               /\ rx' = [rx EXCEPT ![m] = after.rx]
               /\ processed' = [processed EXCEPT ![m] = after.processed]
               /\ calls' = [calls EXCEPT ![m] = after.calls]
    /\ UNCHANGED <<mgr, inflight, written, tcp>>
    /\ UNCHANGED client
    /\ UNCHANGED gameVars

\* a caller registers a handler
SetMessageHandler(m) ==
    /\ \E type \in HandledTypes, handler \in Handlers :
         mgr' = [mgr EXCEPT ![m] = set_message_handler(@, type, handler)]
    /\ UNCHANGED <<rx, inflight, written, processed, calls, tcp>>
    /\ UNCHANGED client
    /\ UNCHANGED gameVars

(* ------------------------------------------------------------------ *)
(* A connection fed by an arbitrary remote writer                      *)
(* ------------------------------------------------------------------ *)
MaxSegs == 2            \* newline-terminated segments the remote side writes

\* what the remote side may write as its k-th segment
Segments(k) ==
    { <<"{", "player_choice", ToString(k), "paper", "}">>,    \* a well-formed move
      <<"{", "game_result", ToString(k), "}">>,               \* another known type
      <<"{", "chat_message", ToString(k), "E", "}">>,         \* non-ASCII text
      <<"{", "not_a_real_type", ToString(k), "}">>,           \* unknown type tag
      <<"{", ToString(k), "}">>,                              \* no type tag
      <<"{", "player_choice", ToString(k)>>,                  \* truncated JSON
      <<"42">>,                                               \* JSON, not an object
      <<"sp">> }                                              \* blank line

SegmentsWritten(m) == Cardinality({i \in 1 .. Len(written[m]) : written[m][i] = "nl"})

RemoteWrite(m) ==
    /\ rx[m].loop # "none"
    /\ SegmentsWritten(m) < MaxSegs
    /\ \E seg \in Segments(SegmentsWritten(m) + 1) :
         LET bytes == utf8_encode(seg) \o <<"nl">>
         IN /\ inflight' = [inflight EXCEPT ![m] = @ \o bytes]
            /\ written' = [written EXCEPT ![m] = @ \o bytes]
    /\ UNCHANGED <<mgr, rx, processed, calls, tcp>>
    /\ UNCHANGED client
    /\ UNCHANGED gameVars

\* a manager whose connection is up: the host after start_server and the
\* accept of one client, the joiner after connect_to_server
Established(m) ==
    [NewManager EXCEPT !.connected = TRUE, !.is_server = (m = "H"),
                       !.socket = IF m = "H" THEN "listening" ELSE "stream",
                       !.client_socket = IF m = "H" THEN "stream" ELSE None]

GameIdle ==
    /\ impl = "root"
    /\ session = [s \in Sessions |-> NewSession(MissingFile, TRUE, FALSE)]
    /\ ui = [s \in Sessions |-> NoUI]
    /\ wire = [s \in Sessions |-> <<>>]

InitNet ==
    /\ GameIdle
    /\ \E r \in Managers :
         /\ mgr = [m \in Managers |-> IF m = r THEN Established(m) ELSE NewManager]
         /\ rx = [m \in Managers |->
                    IF m = r THEN [loop |-> "recv", buffer |-> <<>>, sock_open |-> TRUE]
                    ELSE NotStarted]
    /\ inflight = [m \in Managers |-> <<>>]
    /\ written = [m \in Managers |-> <<>>]
    /\ processed = [m \in Managers |-> <<>>]
    /\ calls = [m \in Managers |-> <<>>]
    /\ tcp = "accepted"
    /\ client = [c \in ClientSockets |-> NoClient]

NextNet ==
    \/ \E m \in Managers : RemoteWrite(m)
    \/ \E m \in Managers : Recv(m)
    \/ \E m \in Managers : Process(m)
    \/ \E m \in Managers : mgr[m].connected /\ SetMessageHandler(m)

SpecNet == InitNet /\ [][NextNet]_vars

NetIdle ==
    /\ mgr = [m \in Managers |-> NewManager]
    /\ rx = [m \in Managers |-> NotStarted]
    /\ inflight = [m \in Managers |-> <<>>]
    /\ written = [m \in Managers |-> <<>>]
    /\ processed = [m \in Managers |-> <<>>]
    /\ calls = [m \in Managers |-> <<>>]
    /\ tcp = "none"
    /\ client = [c \in ClientSockets |-> NoClient]

(* ------------------------------------------------------------------ *)
(* Host and joiner, end to end                                         *)
(* ------------------------------------------------------------------ *)
MaxSends == 2           \* messages the joiner sends

port == 5555

\* the address _get_local_ip detects
local_ip == <<"local_ip">>

\* f"{self.local_ip}:{port}": the characters of the code, the digits of the
\* port and every other run of characters without ':' taken as one token
format_room_code(ip, p) == ip \o <<":", ToString(p)>>

\* the port numbers a code may name
PortNumbers == {port, port + 1}

\* room_code.split(':')
RECURSIVE split_colon(_)
split_colon(code) ==
    IF \A i \in 1 .. Len(code) : code[i] # ":" THEN <<code>>
    ELSE LET i == CHOOSE k \in 1 .. Len(code) :
                     code[k] = ":" /\ \A l \in 1 .. k - 1 : code[l] # ":"
         IN <<SubSeq(code, 1, i - 1)>> \o split_colon(SubSeq(code, i + 1, Len(code)))

\* int(text) succeeds: the text is the decimal form of an integer
is_int(text) == Len(text) = 1 /\ \E n \in PortNumbers : ToString(n) = text[1]

\* int(text)
int(text) == CHOOSE n \in PortNumbers : ToString(n) = text[1]

\* the length test of join_room taken as "at least two parts"
parse_room_code_loose(code) ==
    LET parts == split_colon(code)
    IN IF Len(parts) < 2 THEN [ok |-> FALSE, host |-> None, port |-> None]
       ELSE IF ~is_int(parts[2]) THEN [ok |-> FALSE, host |-> None, port |-> None]
       ELSE [ok |-> TRUE, host |-> parts[1], port |-> int(parts[2])]

\* NetworkManager.join_room: the host and port of a code, or the refusal of
\* a code that has not two parts or whose second part is no integer
parse_room_code(code) ==
    LET parts == split_colon(code)
    IN IF Len(parts) # 2 THEN [ok |-> FALSE, host |-> None, port |-> None]
       ELSE IF ~is_int(parts[2]) THEN [ok |-> FALSE, host |-> None, port |-> None]
       ELSE [ok |-> TRUE, host |-> parts[1], port |-> int(parts[2])]

\* the codes a user may type: the host's, one with another port, one with
\* another host, and codes with one part, three parts, a port that is no
\* number, an empty port
RoomCodes ==
    { format_room_code(local_ip, port),
      format_room_code(local_ip, port + 1),
      format_room_code(<<"other_ip">>, port),
      local_ip,
      local_ip \o <<":", ToString(port), ":", ToString(port)>>,
      local_ip \o <<":", "abc">>,
      local_ip \o <<":">> }

\* start_server with the connected flag raised before the bind
create_room_connected_first ==
    /\ mgr["H"].socket = None
    /\ \E bound \in BOOLEAN :
         mgr' = [mgr EXCEPT !["H"] =
            IF bound
            THEN [@ EXCEPT !.socket = "listening", !.connected = TRUE,
                           !.is_server = TRUE,
                           !.room_code = format_room_code(local_ip, port),
                           !.accept_loop = "accepting", !.op = "create_room",
                           !.ret = format_room_code(local_ip, port)]
            ELSE [@ EXCEPT !.socket = "unbound", !.connected = TRUE,
                           !.op = "create_room", !.ret = None]]
    /\ UNCHANGED <<rx, inflight, written, processed, calls, tcp>>
    /\ UNCHANGED client
    /\ UNCHANGED gameVars

\* NetworkManager.create_room -> start_server: bind and listen may fail; on
\* success the accept thread is started
create_room ==
    /\ mgr["H"].socket = None
    /\ \E bound \in BOOLEAN :
         mgr' = [mgr EXCEPT !["H"] =
            IF bound
            THEN [@ EXCEPT !.socket = "listening", !.connected = TRUE,
                           !.is_server = TRUE,
                           !.room_code = format_room_code(local_ip, port),
                           !.accept_loop = "accepting", !.op = "create_room",
                           !.ret = format_room_code(local_ip, port)]
            ELSE [@ EXCEPT !.socket = "unbound", !.op = "create_room", !.ret = None]]
    /\ UNCHANGED <<rx, inflight, written, processed, calls, tcp>>
    /\ UNCHANGED client
    /\ UNCHANGED gameVars

\* a host listens at the address
Listening(host, p) ==
    host = local_ip /\ p = port /\ mgr["H"].socket = "listening"

\* NetworkManager.join_room -> connect_to_server: a code that does not parse
\* is refused at once; otherwise the connect succeeds when a host listens at
\* the address and can be reached, and the receive thread is started
join_room ==
    /\ mgr["J"].socket = None
    /\ \E code \in RoomCodes, reached \in BOOLEAN :
         LET parsed == parse_room_code(code)
         IN IF ~parsed.ok
            THEN /\ mgr' = [mgr EXCEPT !["J"] =
                      [@ EXCEPT !.op = "join_room", !.arg = code, !.ret = FALSE]]
                 /\ UNCHANGED <<rx, tcp>>
            ELSE IF reached /\ Listening(parsed.host, parsed.port)
            THEN /\ mgr' = [mgr EXCEPT !["J"] =
                      [@ EXCEPT !.socket = "stream", !.connected = TRUE,
                                !.is_server = FALSE, !.op = "join_room",
                                !.arg = code, !.dest = <<parsed.host, parsed.port>>,
                                !.ret = TRUE]]
                 /\ rx' = [rx EXCEPT !["J"] =
                      [loop |-> "recv", buffer |-> <<>>, sock_open |-> TRUE]]
                 /\ tcp' = "backlog"
            ELSE /\ mgr' = [mgr EXCEPT !["J"] =
                      [@ EXCEPT !.socket = "failed", !.connected = FALSE,
                                !.op = "join_room", !.arg = code,
                                !.dest = <<parsed.host, parsed.port>>, !.ret = FALSE]]
                 /\ UNCHANGED <<rx, tcp>>
    /\ UNCHANGED <<inflight, written, processed, calls>>
    /\ UNCHANGED client
    /\ UNCHANGED gameVars

\* NetworkManager._accept_connections: one turn of the loop; the accepted
\* socket becomes client_socket and gets its _handle_client thread
accept ==
    /\ mgr["H"].accept_loop = "accepting"
    /\ mgr["H"].connected
    /\ tcp = "backlog"
    /\ mgr' = [mgr EXCEPT !["H"].client_socket = "stream"]
    /\ rx' = [rx EXCEPT !["H"] = LoopOn("H", [loop |-> "recv", buffer |-> <<>>, sock_open |-> TRUE])]
    /\ tcp' = "accepted"
    /\ UNCHANGED <<inflight, written, processed, calls>>
    /\ UNCHANGED client
    /\ UNCHANGED gameVars

\* the socket send_message picks: the most recently accepted client socket
\* in host role once there is one, the manager's own socket otherwise
target_socket(M) ==
    IF M.is_server /\ M.client_socket # None THEN M.client_socket ELSE M.socket

\* the host's end of the joiner's connection is gone: the socket accepted for
\* it was closed, or the listening socket was closed before it was accepted
HostEndClosed ==
    \/ \E c \in ClientSockets : client[c].peer = "J" /\ client[c].state = "closed"
    \/ tcp = "backlog" /\ mgr["H"].socket = "closed"

\* the far end of the accepted socket c has not been closed
PeerOpen(c) ==
    IF client[c].peer = "J" THEN mgr["J"].socket = "stream" ELSE client[c].peer_open

\* every write reported as done, whatever the socket
socket_send_always(sock) == {TRUE}

\* target_socket.send(bytes): TRUE when the bytes are written, FALSE when it
\* raises. It raises on a listening, unconnected or closed socket; on a
\* stream whose far end is closed it is written or raises (reset)
socket_send(sock) ==
    IF sock \in ClientSockets
    THEN IF client[sock].state # "open" THEN {FALSE}
         ELSE IF PeerOpen(sock) THEN {TRUE} ELSE {TRUE, FALSE}
    ELSE IF sock = "stream"
    THEN IF HostEndClosed THEN {TRUE, FALSE} ELSE {TRUE}
    ELSE {FALSE}

\* NetworkManager.send_message: the manager after the call (its return value
\* in ret) and the bytes it wrote, if any; sent is what the socket write did
send_message(M, message_type, choice, sent) ==
    IF ~M.connected
    THEN [mgr |-> [M EXCEPT !.op = "send_message", !.ret = FALSE], bytes |-> <<>>]
    ELSE LET serialized == json_dumps_line(message_type, M.clock, choice)
             M1 == [M EXCEPT !.clock = @ + 1, !.op = "send_message"]
         IN IF target_socket(M) = None
            THEN [mgr |-> [M1 EXCEPT !.ret = FALSE], bytes |-> <<>>]
            ELSE IF sent
            THEN [mgr |-> [M1 EXCEPT !.ret = TRUE], bytes |-> utf8_encode(serialized)]
            ELSE [mgr |-> [M1 EXCEPT !.ret = FALSE], bytes |-> <<>>]

\* NetworkManager.send_player_choice, called by the joiner
send_player_choice ==
    /\ mgr["J"].socket # None
    /\ mgr["J"].clock <= MaxSends
    /\ \E c \in Choice, sent \in socket_send(target_socket(mgr["J"])) :
         LET out == send_message(mgr["J"], "player_choice", c, sent)
         IN /\ mgr' = [mgr EXCEPT !["J"] = out.mgr]
            /\ inflight' = [inflight EXCEPT !["H"] = @ \o out.bytes]
            /\ written' = [written EXCEPT !["H"] = @ \o out.bytes]
    /\ UNCHANGED <<rx, processed, calls, tcp>>
    /\ UNCHANGED client
    /\ UNCHANGED gameVars

InitE2E ==
    /\ GameIdle
    /\ NetIdle

NextE2E ==
    \/ create_room
    \/ SetMessageHandler("H")
    \/ join_room
    \/ accept
    \/ send_player_choice
    \/ Recv("H")
    \/ Process("H")

\* the accept thread and the receive thread are scheduled
SpecE2E ==
    /\ InitE2E /\ [][NextE2E]_vars
    /\ WF_vars(accept) /\ WF_vars(Recv("H")) /\ WF_vars(Process("H"))

(* ------------------------------------------------------------------ *)
(* The life of the connections: a host with several clients, a joiner  *)
(* ------------------------------------------------------------------ *)
\* the next socket the accept loop obtains, if it can hold another one
FreeClient ==
    IF client["c1"].state = "none" THEN {"c1"}
    ELSE IF client["c2"].state = "none" THEN {"c2"} ELSE {}

\* who may be waiting to be accepted: the joiner, once it connected, and
\* any other remote peer
Connecting == (IF tcp = "backlog" THEN {"J"} ELSE {}) \cup {"remote"}

\* NetworkManager._accept_connections: one turn of the loop; the accepted
\* socket replaces client_socket and gets its own _handle_client thread
accept_connections ==
    /\ mgr["H"].accept_loop = "accepting"
    /\ mgr["H"].connected
    /\ mgr["H"].socket = "listening"
    /\ \E c \in FreeClient, peer \in Connecting :
         /\ client' = [client EXCEPT ![c] =
                [state |-> "open", loop |-> "recv", peer |-> peer,
                 peer_open |-> TRUE, got |-> <<>>]]
         /\ mgr' = [mgr EXCEPT !["H"].client_socket = c]
         /\ tcp' = IF peer = "J" THEN "accepted" ELSE tcp
    /\ UNCHANGED <<rx, inflight, written, processed, calls>>
    /\ UNCHANGED gameVars

\* NetworkManager._accept_connections: accept raises on the closed
\* listening socket and the loop breaks
accept_raises ==
    /\ mgr["H"].accept_loop = "accepting"
    /\ mgr["H"].socket = "closed"
    /\ mgr' = [mgr EXCEPT !["H"].accept_loop = "exited"]
    /\ UNCHANGED <<rx, inflight, written, processed, calls, tcp>>
    /\ UNCHANGED client
    /\ UNCHANGED gameVars

\* NetworkManager._handle_client of socket c: recv returns the empty read of
\* a stream closed by the peer, or raises on the socket closed under it;
\* the loop is left and the finally clause closes the socket
handle_client_exit(c) ==
    /\ client[c].loop = "recv"
    /\ ~PeerOpen(c) \/ client[c].state = "closed"
    /\ client' = [client EXCEPT ![c].loop = "exited", ![c].state = "closed"]
    /\ UNCHANGED <<mgr, rx, inflight, written, processed, calls, tcp>>
    /\ UNCHANGED gameVars

\* NetworkManager._receive_messages: recv returns the empty read of a stream
\* closed by the host, or raises (reset, or the socket closed under it); the
\* loop breaks and nothing else is done
receive_messages_exit ==
    /\ rx["J"].loop = "recv"
    /\ inflight["J"] = <<>>
    /\ HostEndClosed \/ mgr["J"].socket = "closed"
    /\ rx' = [rx EXCEPT !["J"] = LoopExit("J", @)]
    /\ UNCHANGED <<mgr, inflight, written, processed, calls, tcp>>
    /\ UNCHANGED client
    /\ UNCHANGED gameVars

\* a remote peer closes its end of the connection accepted as c
RemoteClose(c) ==
    /\ client[c].peer = "remote"
    /\ client[c].peer_open
    /\ client' = [client EXCEPT ![c].peer_open = FALSE]
    /\ UNCHANGED <<mgr, rx, inflight, written, processed, calls, tcp>>
    /\ UNCHANGED gameVars

\* NetworkManager.disconnect: the manager after the call
disconnect(M) ==
    IF M.connected
    THEN [M EXCEPT !.connected = FALSE,
                   !.socket = IF @ # None THEN "closed" ELSE @,
                   !.op = "disconnect", !.ret = None]
    ELSE [M EXCEPT !.op = "disconnect", !.ret = None]

\* NetworkManager.disconnect: self.socket and self.client_socket are closed
Disconnect(m) ==
    /\ mgr[m].socket # None
    /\ mgr' = [mgr EXCEPT ![m] = disconnect(@)]
    /\ client' = IF mgr[m].connected /\ mgr[m].client_socket \in ClientSockets
                 THEN [client EXCEPT ![mgr[m].client_socket].state = "closed"]
                 ELSE client
    /\ UNCHANGED <<rx, inflight, written, processed, calls, tcp>>
    /\ UNCHANGED gameVars

\* the types a caller sends
SentTypes == {"game_start"}

\* NetworkManager.send_message called on manager m: the bytes go to the
\* socket it picked
SendMessage(m) ==
    /\ mgr[m].clock <= MaxSends
    /\ \E type \in SentTypes, sent \in socket_send(target_socket(mgr[m])) :
         LET out == send_message(mgr[m], type, None, sent)
             to  == target_socket(mgr[m])
         IN /\ mgr' = [mgr EXCEPT ![m] = out.mgr]
            /\ client' = IF out.bytes # <<>> /\ to \in ClientSockets
                         THEN [client EXCEPT ![to].got = Append(@, mgr[m].clock)]
                         ELSE client
            /\ inflight' = IF out.bytes # <<>> /\ to = "stream"
                           THEN [inflight EXCEPT !["H"] = @ \o out.bytes] ELSE inflight
            /\ written' = IF out.bytes # <<>> /\ to = "stream"
                          THEN [written EXCEPT !["H"] = @ \o out.bytes] ELSE written
    /\ UNCHANGED <<rx, processed, calls, tcp>>
    /\ UNCHANGED gameVars

NextConn ==
    \/ create_room
    \/ join_room
    \/ accept_connections
    \/ accept_raises
    \/ \E c \in ClientSockets : handle_client_exit(c)
    \/ receive_messages_exit
    \/ \E c \in ClientSockets : RemoteClose(c)
    \/ \E m \in Managers : Disconnect(m)
    \/ \E m \in Managers : SendMessage(m)

SpecConn == InitE2E /\ [][NextConn]_vars

\* the threads of the managers are scheduled: a loop whose recv or accept
\* has returned or raised goes on to leave the loop. Nothing is assumed of
\* the callers and of the remote peers.
SpecConnLive ==
    /\ SpecConn
    /\ WF_vars(accept_raises)
    /\ WF_vars(receive_messages_exit)
    /\ \A c \in ClientSockets : WF_vars(handle_client_exit(c))

InitFiles == {MissingFile, MalformedFile}

Init ==
    /\ impl \in Impls
    /\ \E f \in InitFiles, w \in BOOLEAN, cb \in BOOLEAN :
         /\ impl = "nested" => ~cb
         /\ session = [s \in Sessions |-> NewSession(f, w, cb)]
    /\ ui = [s \in Sessions |-> NoUI]
    /\ wire = [s \in Sessions |-> <<>>]
    /\ NetIdle

Next ==
    \/ PlayRound(1)
    \/ SetGameMode(1)
    \/ ResetGame(1)

Spec == Init /\ [][Next]_vars

(* ------------------------------------------------------------------ *)
(* A session started on whatever the two files hold                    *)
(* ------------------------------------------------------------------ *)
\* a record an earlier run left in the history file
OldRecord ==
    [round |-> 1, p1choice |-> "rock", p1score |-> 1,
     p2choice |-> "scissors", p2score |-> 0, result |-> "win"]

\* what the history file may hold when the session is created
HistoryFiles == {MissingFile, MalformedFile, NotAListFile, JsonFile(json_dump(<<OldRecord>>))}

\* what the summary file may hold when the session is created
MenuFiles == {MissingFile, MalformedFile, NotAListFile}

InitLoad ==
    /\ impl \in Impls
    /\ \E f \in HistoryFiles, mf \in MenuFiles :
         /\ impl = "root" => mf = MissingFile
         /\ session = [s \in Sessions |->
                          [NewSession(f, TRUE, FALSE) EXCEPT !.menu_file = mf]]
    /\ ui = [s \in Sessions |-> NoUI]
    /\ wire = [s \in Sessions |-> <<>>]
    /\ NetIdle

SpecLoad == InitLoad /\ [][Next]_vars

(* ------------------------------------------------------------------ *)
(* The summary log under a sequence of save_match calls                *)
(* ------------------------------------------------------------------ *)
\* RockPaperScissorsGame._save_to_menu_history -> save_load.save_match with
\* the result of a round
SaveMatch(s) ==
    /\ \E result \in GameResult :
         session' = [session EXCEPT ![s] =
            Returned(save_match(@, result), "save_match", None, None, result, None, <<>>)]
    /\ UNCHANGED <<impl, ui, wire>>
    /\ UNCHANGED netVars

InitMenu ==
    /\ impl = "nested"
    /\ \E mf \in MenuFiles, w \in BOOLEAN :
         session = [s \in Sessions |->
                       [NewSession(MissingFile, w, FALSE) EXCEPT !.menu_file = mf]]
    /\ ui = [s \in Sessions |-> NoUI]
    /\ wire = [s \in Sessions |-> <<>>]
    /\ NetIdle

NextMenu == SaveMatch(1)

SpecMenu == InitMenu /\ [][NextMenu]_vars

(* ------------------------------------------------------------------ *)
(* Two peers of a networked match, each scoring the exchanged round    *)
(* from its own side                                                   *)
(* ------------------------------------------------------------------ *)
\* GameUI.create_room / GameUI.join_room have put both sessions in VS_PLAYER
\* mode; ui.py runs with the game.py next to it.
InitPeers ==
    /\ impl = "root"
    /\ session = [s \in Sessions |->
                     set_game_mode(NewSession(MissingFile, TRUE, FALSE), "vs_player")]
    /\ ui = [s \in Sessions |-> NoUI]
    /\ wire = [s \in Sessions |-> <<>>]
    /\ NetIdle

\* both users choose a move only when no check of theirs is scheduled
NextPeers ==
    \/ \E p \in Sessions : ui[p].chains = <<>> /\ make_online_choice(p)
    \/ \E p \in Sessions : handle_opponent_choice(p)
    \/ \E p \in Sessions : check_opponent_response(p)

SpecPeers == InitPeers /\ [][NextPeers]_vars

\* the user of peer 1 may press a move button again while a check is
\* scheduled
NextClicks ==
    \/ make_online_choice(1)
    \/ ui[2].chains = <<>> /\ make_online_choice(2)
    \/ \E p \in Sessions : handle_opponent_choice(p)
    \/ \E p \in Sessions : check_opponent_response(p)

SpecClicks == InitPeers /\ [][NextClicks]_vars

(* ------------------------------------------------------------------ *)
(* Properties of the match session                                     *)
(* ------------------------------------------------------------------ *)
TwoPlayerModes == {"vs_player", "vs_local_player"}

NoOutcomeMessages == {"Waiting for both players", "Player choice missing"}

\* the step was a play_round call on session s
IsPlayRound(s) == session'[s].last.op = "play_round" /\ session'[s] # session[s]

\* the play_round call of the step scored a round
Resolved(s) == IsPlayRound(s) /\ session'[s].last.message \notin NoOutcomeMessages

\* a score counter, the round counter or the history changes in the step
Scored(s) ==
    \/ session'[s].player1_score # session[s].player1_score
    \/ session'[s].player2_score # session[s].player2_score
    \/ session'[s].round # session[s].round
    \/ session'[s].history # session[s].history

\* C1: a play_round call changes a score, the round counter or the history
\* only if both move slots then hold a move, and a call that leaves a slot
\* empty reports the waiting status and records nothing.
C1_ScoredOnlyWithBothMoves ==
    [][IsPlayRound(1) =>
         /\ Scored(1) => /\ session'[1].player1_choice \in Choice
                         /\ session'[1].player2_choice \in Choice
         /\ (session'[1].player1_choice = None \/ session'[1].player2_choice = None)
              => /\ session'[1].last.message = "Waiting for both players"
                 /\ ~Scored(1)]_vars

Beats == {<<"rock", "scissors">>, <<"scissors", "paper">>, <<"paper", "rock">>}

\* C2: a round played with moves a and b is a draw iff a = b, a win iff
\* (a, b) is (rock, scissors), (scissors, paper) or (paper, rock), and a loss
\* otherwise; the winning pairs form a 3-cycle and no move beats itself.
C2_OutcomeTable ==
    LET S == session[1]
        a == S.player1_choice
        b == S.player2_choice
    IN (S.last.op = "play_round" /\ S.last.message \notin NoOutcomeMessages
        /\ a \in Choice /\ b \in Choice)
       => /\ S.last.result = "draw" <=> a = b
          /\ S.last.result = "win" <=> <<a, b>> \in Beats
          /\ S.last.result = "lose" <=> (a # b /\ <<a, b>> \notin Beats)
          /\ S.last.result \in GameResult
          /\ S.last.result = "win" => a # b

C2_Witness ==
    /\ session[1].last.op = "play_round"
    /\ session[1].last.result = "lose"
    /\ session[1].player1_choice = "rock"
    /\ session[1].player2_choice = "paper"
    /\ Len(session[1].history) = 2

\* the two peers scored the same round, each with its own move first
SameRoundScored ==
    /\ \A p \in Sessions : /\ session[p].last.op = "play_round"
                           /\ session[p].last.message \notin NoOutcomeMessages
    /\ session[1].last.choice1 = session[2].last.choice2
    /\ session[1].last.choice2 = session[2].last.choice1

\* C3: when both peers score a round with the moves swapped, one wins iff
\* the other loses, and with different moves their results differ: never
\* both win or both lose.
C3_Antisymmetric ==
    SameRoundScored =>
       /\ session[1].last.result = "win" <=> session[2].last.result = "lose"
       /\ session[1].last.result = "lose" <=> session[2].last.result = "win"
       /\ session[1].last.choice1 # session[1].last.choice2
            => session[1].last.result # session[2].last.result

C3_Witness ==
    /\ SameRoundScored
    /\ session[1].last.choice1 = "paper"
    /\ session[1].last.choice2 = "scissors"
    /\ session[1].last.result = "lose"
    /\ session[2].last.result = "win"

\* C4: a scored round adds 1 to player1's score alone on a win, 1 to
\* player2's score alone on a loss, nothing on a draw, and always 1 to the
\* round counter.
C4_CountersPerOutcome ==
    [][Resolved(1) =>
         LET S == session[1]
             T == session'[1]
         IN /\ T.round = S.round + 1
            /\ T.last.result = "win" =>
                 T.player1_score = S.player1_score + 1 /\ T.player2_score = S.player2_score
            /\ T.last.result = "lose" =>
                 T.player2_score = S.player2_score + 1 /\ T.player1_score = S.player1_score
            /\ T.last.result = "draw" =>
                 T.player1_score = S.player1_score /\ T.player2_score = S.player2_score
            /\ T.last.result \in GameResult]_vars

C4_Witness ==
    /\ session[1].last.op = "play_round"
    /\ session[1].last.result = "lose"
    /\ session[1].player1_score = 1
    /\ session[1].player2_score = 1
    /\ session[1].round = 3

\* everything of the session but the record of the last call
Frame(S) == [S EXCEPT !.last = NoCall]

\* C5: in the two-player modes a play_round call given only one of the two
\* moves returns the waiting result, changes neither the scores, the round
\* counter, the move slots, the history nor the files, and does not invoke
\* the round-end callback.
C5_WaitingChangesNothing ==
    [][(/\ session'[1].last.op = "play_round"
        /\ session[1].game_mode \in TwoPlayerModes
        /\ (session'[1].last.choice1 = None) # (session'[1].last.choice2 = None))
       => /\ session'[1].last.message = "Waiting for both players"
          /\ session'[1].last.result = "draw"
          /\ session'[1].last.round_end = <<>>
          /\ Frame(session'[1]) = Frame(session[1])]_vars

C5_Witness ==
    /\ session[1].last.op = "play_round"
    /\ session[1].last.message = "Waiting for both players"
    /\ session[1].game_mode = "vs_player"
    /\ session[1].last.choice1 = "rock"
    /\ session[1].last.choice2 = None
    /\ session[1].on_round_end
    /\ Len(session[1].history) = 1
    /\ session[1].player1_choice = "paper"

(* ------------------------------------------------------------------ *)
(* Properties of the peer session layer                                *)
(* ------------------------------------------------------------------ *)
Last(q) == q[Len(q)]

\* the step handed one more message to _process_message of m
Handled(m) == Len(processed'[m]) = Len(processed[m]) + 1

\* a payload that is not a JSON object with a known type tag
Malformed(message) ==
    LET j == json_loads(message)
    IN j.kind # "object" \/ j.type \notin NetworkMessageType

\* C6: a malformed payload (invalid or truncated JSON, JSON that is not an
\* object, an unknown or missing type tag) handled by the host's or the
\* joiner's receive loop leaves the loop reading and the socket open.
C6_MalformedKeepsConnection ==
    [][\A m \in Managers :
          (Handled(m) /\ Malformed(Last(processed'[m])))
             => rx'[m].loop # "exited" /\ rx'[m].sock_open]_vars

\* the timestamps of the handler invocations of m whose message is the
\* player_choice the joiner stamped k
Deliveries(k) ==
    {i \in 1 .. Len(calls["H"]) :
        /\ calls["H"][i].data.timestamp = ToString(k)
        /\ calls["H"][i].data.type = "player_choice"}

\* the joiner's k-th send wrote the player_choice c to the connection
Sent(k, c) ==
    /\ mgr["J"].clock > k
    /\ \E i \in 1 .. Len(written["H"]) - 5 :
         SubSeq(written["H"], i, i + 5) = <<"{", "player_choice", ToString(k), c, "}", "nl">>

\* the k-th message of the joiner is written and the host has not handled it
Awaiting(k) ==
    /\ \E c \in Choice : Sent(k, c)
    /\ Len(processed["H"]) < k

\* the host's handler got the k-th message once, with the choice sent
DeliveredOnce(k) ==
    /\ Cardinality(Deliveries(k)) = 1
    /\ \A i \in Deliveries(k) : Sent(k, calls["H"][i].data.choice)

\* C7: with a room created, a player_choice handler registered on the host
\* and the joiner connected, every player_choice the joiner sends reaches the
\* host's handler, once and with the choice sent.
C7_EndToEndDelivery ==
    \A k \in 1 .. MaxSends :
       (Awaiting(k) /\ mgr["H"].message_handlers["player_choice"] # None)
          ~> [](DeliveredOnce(k))

C7_Witness ==
    /\ Sent(2, "paper")
    /\ DeliveredOnce(2)
    /\ DeliveredOnce(1)
    /\ rx["H"].loop = "recv"

RECURSIVE NonBlankLines(_)
\* the newline-terminated segments of a text that are not blank, in order
NonBlankLines(t) ==
    IF ~HasNewline(t) THEN <<>>
    ELSE LET i    == FirstNewline(t)
             line == SubSeq(t, 1, i - 1)
             rest == NonBlankLines(SubSeq(t, i + 1, Len(t)))
         IN IF \A j \in 1 .. Len(line) : line[j] = "sp" THEN rest ELSE <<line>> \o rest

IsPrefix(p, q) == Len(p) <= Len(q) /\ SubSeq(q, 1, Len(p)) = p

\* the loop of m has nothing more to do with what was written so far
Quiet(m) ==
    \/ rx[m].loop = "exited"
    \/ rx[m].loop = "recv" /\ inflight[m] = <<>>

\* C8: however the stream is split across reads, the loop processes exactly
\* its non-blank newline-terminated segments, each once and whole.
C8_ExactlyTheSegments ==
    \A m \in Managers :
       rx[m].loop # "none" =>
          /\ IsPrefix(processed[m], NonBlankLines(utf8_decode(written[m])))
          /\ Quiet(m) => processed[m] = NonBlankLines(utf8_decode(written[m]))

\* C9: the handlers of one connection are invoked in the order the messages
\* arrived (the k-th segment written carries the stamp k).
C9_DeliveredInArrivalOrder ==
    \A m \in Managers :
       \A i \in 1 .. Len(calls[m]) : \A j \in 1 .. Len(calls[m]) :
          i < j => StampOf(calls[m][i].data.timestamp) < StampOf(calls[m][j].data.timestamp)

C9_Witness ==
    /\ Len(calls["H"]) = 2
    /\ calls["H"][1].data.timestamp = "1"
    /\ calls["H"][2].data.timestamp = "2"
    /\ rx["H"].buffer = <<>>

\* C10: a well-formed message whose type has a handler invokes that handler,
\* once, with the parsed message, and no other handler; one whose type has
\* none is dropped without a call and without effect on the connection;
\* registering a handler changes the entry of its type alone.
C10_OneHandlerPerType ==
    [][\A m \in Managers :
         /\ (Handled(m) /\ ~Malformed(Last(processed'[m]))) =>
               LET j == json_loads(Last(processed'[m]))
                   h == IF j.type \in HandledTypes
                        THEN mgr[m].message_handlers[j.type] ELSE None
               IN /\ h # None => calls'[m] = Append(calls[m], [handler |-> h, data |-> j])
                  /\ h = None => calls'[m] = calls[m]
                  /\ rx'[m].loop # "exited"
                  /\ rx'[m].sock_open = rx[m].sock_open
         /\ mgr'[m].message_handlers # mgr[m].message_handlers =>
               /\ \E t \in HandledTypes, h \in Handlers :
                     mgr'[m].message_handlers = [mgr[m].message_handlers EXCEPT ![t] = h]
               /\ calls'[m] = calls[m]
         /\ ~Handled(m) => calls'[m] = calls[m]]_vars

C10_Witness ==
    /\ Len(calls["J"]) = 2
    /\ calls["J"][1].handler = "h1"
    /\ calls["J"][2].handler = "h2"
    /\ calls["J"][1].data.type = "game_result"
    /\ calls["J"][2].data.type = "game_result"
    /\ mgr["J"].message_handlers["player_choice"] = None

\* the step is a call of send_message on manager m
SendStep(m) ==
    /\ mgr'[m].op = "send_message"
    /\ <<mgr'[m].op, mgr'[m].ret, mgr'[m].clock>> # <<mgr[m].op, mgr[m].ret, mgr[m].clock>>

\* a socket that can be written to: a connected stream not yet closed
Usable(sock) ==
    \/ sock = "stream"
    \/ sock \in ClientSockets /\ client[sock].state = "open"

\* the step wrote one serialized message of manager m to the socket sock
WroteTo(m, sock) ==
    LET line == utf8_encode(json_dumps_line("game_start", mgr[m].clock, None))
    IN /\ sock \in ClientSockets =>
             /\ client' = [client EXCEPT ![sock].got = Append(@, mgr[m].clock)]
             /\ written' = written
       /\ sock = "stream" =>
             /\ written' = [written EXCEPT !["H"] = @ \o line]
             /\ client' = client
       /\ Usable(sock)

\* the step wrote nothing to any socket
WroteNothing == client' = client /\ written' = written

\* C11: send_message always returns a boolean to its caller: False when the
\* manager is not connected, when its target socket cannot be written to (the
\* listening socket of a host without clients, a closed socket) and when the
\* write fails; True only when the serialized message was written to a
\* socket; nothing is written when it returns False.
C11_SendNeverRaises ==
    [][\A m \in Managers : SendStep(m) =>
         /\ mgr'[m].ret \in BOOLEAN
         /\ ~mgr[m].connected => mgr'[m].ret = FALSE
         /\ ~Usable(target_socket(mgr[m])) => mgr'[m].ret = FALSE
         /\ (mgr[m].is_server /\ mgr[m].client_socket = None) => mgr'[m].ret = FALSE
         /\ mgr'[m].ret = TRUE => WroteTo(m, target_socket(mgr[m]))
         /\ mgr'[m].ret = FALSE => WroteNothing]_vars

\* a connected host without clients called send_message and got False
C11_Witness ==
    /\ mgr["H"].op = "send_message"
    /\ mgr["H"].connected
    /\ mgr["H"].client_socket = None
    /\ mgr["H"].ret = FALSE
    /\ mgr["J"].op = "send_message"
    /\ mgr["J"].ret = TRUE

\* the step is a call of disconnect on manager m
DisconnectStep(m) == mgr'[m].op = "disconnect" /\ mgr[m].op # "disconnect"

\* C12: after disconnect() the manager is not connected, its own socket (the
\* listening socket of a host) is closed, and in host role no socket the
\* accept loop obtained is left open, whichever was accepted last.
C12_DisconnectClosesAll ==
    [][\A m \in Managers : DisconnectStep(m) =>
         /\ ~mgr'[m].connected
         /\ mgr'[m].socket \notin {"listening", "stream"}
         /\ mgr[m].is_server => \A c \in ClientSockets : client'[c].state # "open"]_vars

\* the step is the receive loop of the joiner leaving on the end of the
\* stream, the joiner itself not having disconnected
JoinerSeesEof ==
    /\ rx["J"].loop = "recv" /\ rx'["J"].loop = "exited"
    /\ mgr["J"].connected

\* the step is the _handle_client loop of socket c leaving on the end of
\* the stream, the host itself not having disconnected
HostSeesEof(c) ==
    /\ client[c].loop = "recv" /\ client'[c].loop = "exited"
    /\ mgr["H"].connected

\* C13: when a receive loop meets the end of the stream it exits and the
\* socket of that connection is closed, and a send_message made after the
\* loop exited, aimed at that connection, does not return True.
C13_EofDestroysConnection ==
    [][/\ JoinerSeesEof => mgr'["J"].socket = "closed"
       /\ \A c \in ClientSockets : HostSeesEof(c) => client'[c].state = "closed"
       /\ (rx["J"].loop = "exited" /\ SendStep("J")) => mgr'["J"].ret = FALSE
       /\ \A c \in ClientSockets :
             (client[c].loop = "exited" /\ target_socket(mgr["H"]) = c /\ SendStep("H"))
                => mgr'["H"].ret = FALSE]_vars

\* a payload that is invalid JSON, or a JSON object whose type tag is unknown
InvalidOrUnknown(message) ==
    LET j == json_loads(message)
    IN j.kind = "invalid" \/ (j.kind = "object" /\ j.type \notin NetworkMessageType)

\* the step wrote one error-type message on the connection towards m
ErrorReplyTo(m) ==
    \E stamp \in Stamps :
       written'[m] = written[m] \o utf8_encode(json_dumps_line("error", stamp, None))

\* C14: when the host's loop hands a malformed payload (invalid JSON or an
\* unknown type tag) to _process_message, an error-type message is written
\* back on the connection the payload came from.
C14_HostRepliesWithError ==
    [][(Handled("H") /\ InvalidOrUnknown(Last(processed'["H"]))) => ErrorReplyTo("J")]_vars

\* C15: a send_message of the host that reports success has written the
\* message to every client socket that is accepted and still open, not only
\* to the one accepted last; one of the joiner has written it to the
\* joiner's single socket.
C15_HostReachesEveryClient ==
    [][/\ (SendStep("H") /\ mgr'["H"].ret = TRUE) =>
             \A c \in ClientSockets :
                client[c].state = "open" => client'[c].got = Append(client[c].got, mgr["H"].clock)
       /\ (SendStep("J") /\ mgr'["J"].ret = TRUE) =>
             /\ WroteTo("J", mgr["J"].socket)
             /\ mgr["J"].socket = "stream"]_vars

(* ------------------------------------------------------------------ *)
(* Properties of the history and of the reset                          *)
(* ------------------------------------------------------------------ *)
\* C16: a play_round call that scores a round puts exactly one record,
\* that of the round, at the end of the history and leaves the records
\* before it as they were; a call that reports waiting leaves the history
\* unchanged.
C16_HistoryAppendOnly ==
    [][IsPlayRound(1) =>
         LET S == session[1]
             T == session'[1]
         IN IF Resolved(1)
            THEN /\ Len(T.history) = Len(S.history) + 1
                 /\ \A i \in 1 .. Len(S.history) : T.history[i] = S.history[i]
                 /\ Last(T.history).round = S.round
                 /\ Last(T.history).result = T.last.result
                 /\ Last(T.history).p1choice = T.player1_choice
                 /\ Last(T.history).p2choice = T.player2_choice
            ELSE T.history = S.history]_vars

C16_Witness ==
    /\ session[1].last.op = "play_round"
    /\ Len(session[1].history) = 2
    /\ session[1].history[1].result = "win"
    /\ session[1].history[1].round = 1
    /\ session[1].history[2].result = "lose"
    /\ session[1].history[2].round = 2

\* C17: after a scored round whose write succeeds the history file holds
\* as many records as the history in memory, and a fresh session loading
\* that file gets a history with the same records in the same order.
C17_FileRoundTrips ==
    [][(Resolved(1) /\ session[1].writable) =>
         LET T == session'[1]
             fresh == NewSession(T.history_file, TRUE, FALSE)
         IN /\ T.history_file.st = "ok"
            /\ Len(T.history_file.data) = Len(T.history)
            /\ Len(fresh.history) = Len(T.history)
            /\ \A i \in 1 .. Len(T.history) : fresh.history[i] = T.history[i]]_vars

C17_Witness ==
    /\ session[1].last.op = "play_round"
    /\ session[1].writable
    /\ Len(session[1].history_file.data) = 2
    /\ session[1].history_file.data[1].p1choice = JNull
    /\ session[1].history_file.data[2].p1choice = JStr("rock")
    /\ session[1].history_file.data[2].round = JNum(2)
    /\ NewSession(session[1].history_file, TRUE, FALSE).history = session[1].history

\* the step was a reset_game call on session s
IsReset(s) == session'[s].last.op = "reset_game" /\ session'[s] # session[s]

\* what every reset_game call does to the counters and the move slots
ResetsCounters(S, T) ==
    /\ T.player1_score = 0 /\ T.player2_score = 0
    /\ T.round = NewSession(MissingFile, TRUE, FALSE).round
    /\ T.player1_score = NewSession(MissingFile, TRUE, FALSE).player1_score
    /\ T.player2_score = NewSession(MissingFile, TRUE, FALSE).player2_score
    /\ T.player1_choice = None /\ T.player2_choice = None
    /\ T.game_mode = S.game_mode
    /\ T.last.keep_history => (T.history = S.history /\ T.history_file = S.history_file)

\* C20 as stated: reset_game puts the scores and the round counter back to
\* the values of a fresh session and empties both move slots; the history
\* is untouched unless clearing is asked for, and then the history in memory
\* and the history file are both empty.
C20_ResetAsStated ==
    [][IsReset(1) =>
         /\ ResetsCounters(session[1], session'[1])
         /\ ~session'[1].last.keep_history =>
               /\ session'[1].history = <<>>
               /\ session'[1].history_file = JsonFile(<<>>)]_vars

\* C20: reset_game puts the scores and the round counter back to the values
\* of a fresh session and empties both move slots; the history is untouched
\* unless clearing is asked for, and then the history in memory is empty and
\* the history file holds the empty list if the write succeeds and is left
\* as it was if the write fails.
C20_Reset ==
    [][IsReset(1) =>
         /\ ResetsCounters(session[1], session'[1])
         /\ ~session'[1].last.keep_history =>
               /\ session'[1].history = <<>>
               /\ session[1].writable => session'[1].history_file = JsonFile(<<>>)
               /\ ~session[1].writable => session'[1].history_file = session[1].history_file]_vars

C20_Witness ==
    /\ session[1].last.op = "reset_game"
    /\ session[1].last.keep_history = FALSE
    /\ session[1].writable
    /\ session[1].history = <<>>
    /\ session[1].history_file = JsonFile(<<>>)
    /\ session[1].round = 1
    /\ session[1].game_mode = "vs_ai"

\* a file that is missing or malformed: it cannot be parsed, or what it
\* holds is not the JSON array the log is stored as
MissingOrMalformed(f) == f.st \in {"missing", "malformed", "other"}

\* C18: a session created on a missing or malformed history file starts with
\* an empty history, and goes on working: no play_round call raises; in the
\* copy that keeps the summary log, a scored round on a missing or malformed
\* summary file leaves a log holding the entry of that round.
C18_LoadIsRecoverable ==
    /\ [](\/ session[1].last.op # "init"
          \/ ~MissingOrMalformed(session[1].history_file)
          \/ session[1].history = <<>> /\ session[1].history_is_list)
    /\ [][IsPlayRound(1) => session'[1].last.message # "raised"]_vars
    /\ [][(/\ Resolved(1) /\ session'[1].last.message # "raised"
            /\ impl = "nested" /\ MissingOrMalformed(session[1].menu_file))
           => /\ session'[1].menu_file.st = "ok"
              /\ Len(session'[1].menu_file.data) = 1]_vars

\* the description save_match writes for a result
DescOf(result) ==
    IF result = "win" THEN "P Win vs AI"
    ELSE IF result = "lose" THEN "AI Win vs P" ELSE "Draw"

\* C19: a save_match call whose read of the log and whose write succeed
\* leaves a log of at most 10 entries with the entry of the call at index 0
\* and the earlier entries behind it in their order, the oldest ones beyond
\* the tenth dropped.
C19_SummaryNewestFirst ==
    [][(/\ session'[1].last.op = "save_match"
        /\ session[1].writable
        /\ session[1].menu_file.st # "other")
       => LET old == menu_load_history(session[1].menu_file)
              new == menu_load_history(session'[1].menu_file)
          IN /\ session'[1].menu_file.st = "ok"
             /\ Len(new) <= 10
             /\ Len(new) = IF Len(old) < 10 THEN Len(old) + 1 ELSE 10
             /\ new[1].desc = DescOf(session'[1].last.result)
             /\ \A i \in 2 .. Len(new) : new[i] = old[i - 1]]_vars

C19_Witness ==
    /\ session[1].last.op = "save_match"
    /\ session[1].last.result = "draw"
    /\ Len(session[1].menu_file.data) = 10
    /\ session[1].menu_file.data[1].desc = JStr("Draw")
    /\ session[1].menu_file.data[2].desc = JStr("P Win vs AI")
    /\ session[1].menu_file.data[10].desc = JStr("AI Win vs P")

(* ------------------------------------------------------------------ *)
(* Properties of the slots, the round counter and the records          *)
(* ------------------------------------------------------------------ *)
\* C21: right after a play_round call that scored a round both move slots
\* are empty.
C21_SlotsClearedAfterRound ==
    [][Resolved(1) =>
         /\ session'[1].player1_choice = None
         /\ session'[1].player2_choice = None]_vars

\* C22: the round numbers of the records of the history are strictly
\* increasing in the order of the history.
C22_RoundNumbersIncrease ==
    \A i \in 1 .. Len(session[1].history) : \A j \in 1 .. Len(session[1].history) :
       i < j => session[1].history[i].round < session[1].history[j].round

(* ------------------------------------------------------------------ *)
(* Properties of room codes and of failed connections                  *)
(* ------------------------------------------------------------------ *)
\* the step is a call of join_room on the joiner
JoinStep ==
    /\ mgr'["J"].op = "join_room"
    /\ mgr["J"].socket = None
    /\ \/ mgr["J"].op # "join_room"
       \/ mgr'["J"].arg # mgr["J"].arg
       \/ mgr'["J"].socket # mgr["J"].socket

\* a code of exactly two ':'-separated parts whose second part is an integer
TwoPartsWithPort(code) ==
    /\ Len(code) >= 2
    /\ code[Len(code) - 1] = ":"
    /\ code[Len(code)] \in {"5555", "5556"}
    /\ \A i \in 1 .. Len(code) - 2 : code[i] # ":"

C24_FailuresAreReturned ==
    /\ [][(mgr["H"].socket = None /\ mgr'["H"].socket = "unbound")
            => /\ ~mgr'["H"].connected
               /\ mgr'["H"].accept_loop = "none"
               /\ mgr'["H"].op = "create_room"
               /\ mgr'["H"].ret = None]_vars
    /\ [][(mgr["J"].socket = None /\ mgr'["J"].socket = "failed")
            => /\ ~mgr'["J"].connected
               /\ rx'["J"].loop = "none"
               /\ mgr'["J"].op = "join_room"
               /\ mgr'["J"].ret = FALSE]_vars
    /\ [](mgr["H"].socket = "unbound" =>
             ~mgr["H"].connected /\ mgr["H"].accept_loop = "none")
    /\ [](mgr["J"].socket = "failed" =>
             ~mgr["J"].connected /\ rx["J"].loop = "none")
    /\ [][\A m \in {"H", "J"} :
            (SendStep(m) /\ mgr[m].socket \in {"unbound", "failed"})
               => mgr'[m].ret = FALSE /\ WroteNothing]_vars

\* both managers failed to open their connection and each was then asked
\* to send
C24_Witness ==
    /\ mgr["H"].socket = "unbound"
    /\ mgr["H"].op = "send_message"
    /\ mgr["H"].ret = FALSE
    /\ mgr["J"].socket = "failed"
    /\ mgr["J"].op = "send_message"
    /\ mgr["J"].ret = FALSE

(* ------------------------------------------------------------------ *)
(* Properties of the networked round                                   *)
(* ------------------------------------------------------------------ *)
\* peer p chose its move of the first round and waits for the opponent's
WaitsFirstRound(p) ==
    /\ ui[p].screen = "online"
    /\ ui[p].chains # <<>>
    /\ session[p].history = <<>>

\* C25: no move is lost: while a peer waits for the opponent's move of a
\* round the opponent has chosen, that move is on its way to the peer or
\* held by it, so that its next check resolves the round.
C25_NoMoveLost ==
    \A p \in Sessions :
       (WaitsFirstRound(p) /\ session[Opponent(p)].player1_choice # None)
          => (wire[p] # <<>> \/ ui[p].opponent_choice # None)

(* ------------------------------------------------------------------ *)
(* Properties of the background loops                                  *)
(* ------------------------------------------------------------------ *)
\* the host was started and then disconnected
HostDisconnected == mgr["H"].is_server /\ ~mgr["H"].connected

\* C26: after disconnect every background loop of the manager exits without
\* anything further from the peers: the accept loop and the loop of every
\* accepted connection on the host, the receive loop on the joiner.
C26_LoopsExitAfterDisconnect ==
    /\ HostDisconnected ~>
          (/\ mgr["H"].accept_loop = "exited"
           /\ \A c \in ClientSockets : client[c].loop # "recv")
    /\ (mgr["J"].socket = "closed") ~> (rx["J"].loop # "recv")

\* C27: polling ends: a scheduled check is never beyond attempt 31, a check
\* that gives up does so only beyond attempt 30 and leaves for the main
\* menu without scoring, and no round is scored once the peer has given up
\* and left for the main menu.
C27_PollingTerminates ==
    /\ [](\A p \in Sessions : \A i \in 1 .. Len(ui[p].chains) :
             ui[p].chains[i] <= PollLimit + 1)
    /\ [][\A p \in Sessions :
            (ui[p].screen = "online" /\ ui'[p].screen = "menu")
               => /\ \E i \in 1 .. Len(ui[p].chains) : ui[p].chains[i] > 30
                  /\ session' = session]_vars
    /\ [][\A p \in Sessions : Resolved(p) => ui[p].screen = "online"]_vars

\* C29: a received move of the opponent scores at most one round: a peer
\* never has more rounds in its history than moves it received.
C29_OneRoundPerMove ==
    \A p \in Sessions : Len(session[p].history) <= ui[p].handled

(* ------------------------------------------------------------------ *)
(* Properties of the records and of the counters                       *)
(* ------------------------------------------------------------------ *)
\* the scores in the last record of the history are the current scores
LastScoresMatch(S) ==
    /\ S.history # <<>>
    /\ S.history[Len(S.history)].p1score = S.player1_score
    /\ S.history[Len(S.history)].p2score = S.player2_score

\* C28: the record a scored round appends carries the round counter as it
\* was before the increment, the two moves, the outcome and the scores
\* including that round; the scores of the last record equal the current
\* scores after every scored round and stay equal under every step that is
\* not a reset.
C28_RecordContents ==
    /\ [][Resolved(1) =>
            /\ Len(session'[1].history) = Len(session[1].history) + 1
            /\ LET rec == session'[1].history[Len(session'[1].history)]
               IN /\ rec.round = session[1].round
                  /\ session'[1].round = rec.round + 1
                  /\ rec.p1choice = session'[1].player1_choice
                  /\ rec.p2choice = session'[1].player2_choice
                  /\ rec.result = session'[1].last.result
                  /\ rec.p1score = session[1].player1_score
                                     + (IF rec.result = "win" THEN 1 ELSE 0)
                  /\ rec.p2score = session[1].player2_score
                                     + (IF rec.result = "lose" THEN 1 ELSE 0)
            /\ LastScoresMatch(session'[1])]_vars
    /\ [][(LastScoresMatch(session[1]) /\ ~IsReset(1))
            => LastScoresMatch(session'[1])]_vars

\* a second round was won after a lost one and recorded with both scores
C28_Witness ==
    /\ session[1].last.op = "play_round"
    /\ session[1].last.result = "win"
    /\ Len(session[1].history) = 2
    /\ session[1].history[2].round = 2
    /\ session[1].history[2].p1score = 1
    /\ session[1].history[2].p2score = 1
    /\ session[1].round = 3

\* the play_round call of the step resolved a round and returned its outcome
Returns(s) == Resolved(s) /\ session'[s].last.message # "raised"

ScoreSum(S) == S.player1_score + S.player2_score

\* C30: round - 1 is the number of rounds resolved since creation or the
\* last reset and the sum of the scores is the number of those that were
\* not draws: a new session has round 1 and no score, a reset returns to
\* that, a resolved round adds 1 to the round counter and, unless it is a
\* draw, 1 to the sum of the scores, and no other step changes either.
C30_CountersMatchRounds ==
    /\ [](session[1].last.op = "init" =>
             session[1].round = 1 /\ ScoreSum(session[1]) = 0)
    /\ [](session[1].round >= 1 /\ ScoreSum(session[1]) <= session[1].round - 1)
    /\ [][IsReset(1) =>
             session'[1].round = 1 /\ ScoreSum(session'[1]) = 0]_vars
    /\ [][Returns(1) =>
            /\ session'[1].round = session[1].round + 1
            /\ ScoreSum(session'[1]) = ScoreSum(session[1])
                  + (IF session'[1].last.result = "draw" THEN 0 ELSE 1)]_vars
    /\ [][(~IsReset(1) /\ ~Returns(1)) =>
            /\ session'[1].round = session[1].round
            /\ session'[1].player1_score = session[1].player1_score
            /\ session'[1].player2_score = session[1].player2_score]_vars

====
